---- MODULE Spec2Model ----
(***************************************************************************)
(* Model of src/Deep_research_agent/main.py: the three-stage research      *)
(* pipeline of main() (Plan, Search, Report), the structured extraction of *)
(* the search buffer and the hybrid aggregator raw_fetch_web_data_hybrid.  *)
(*                                                                         *)
(* Text is a sequence of tokens.  Every token stands for a fixed piece of  *)
(* text: " " is whitespace, "[", "]", "{", "}", "," are the JSON           *)
(* punctuation characters, every other token is text without whitespace   *)
(* at its ends and without punctuation.  Dates are sequences of single     *)
(* characters, so that the substring test of the recency filter is         *)
(* computed.                                                               *)
(***************************************************************************)
EXTENDS Integers, Sequences, FiniteSets, TLC

\* ---------------------------------------------------------------- bounds
MaxQueries == 2
MaxPlanEvents == 2
MaxSearchEvents == 2
MaxReportEvents == 1

\* ------------------------------------------------------- text primitives
WS == " "

\* str.strip() is falsy: the text is empty or whitespace only
IsBlank(s) == \A i \in 1..Len(s) : s[i] = WS

RECURSIVE LStrip(_)
LStrip(s) == IF s # <<>> /\ Head(s) = WS THEN LStrip(Tail(s)) ELSE s

RECURSIVE RStrip(_)
RStrip(s) ==
  IF s # <<>> /\ s[Len(s)] = WS THEN RStrip(SubSeq(s, 1, Len(s) - 1)) ELSE s

\* str.strip()
Strip(s) == RStrip(LStrip(s))

PlanMarker == "[Plan Stream]"

\* re.sub(r'\[Plan Stream\]', '', plan)
RemoveMarker(s) == SelectSeq(s, LAMBDA t : t # PlanMarker)

\* ------------------------------------------------------------ the queries
QueryText(i) == IF i = 1 THEN "q1" ELSE IF i = 2 THEN "q2" ELSE "q3"

\* the f-string templates of the fallback plan and of the two fallback reports
FallbackPlan(q) ==
  <<"1. Search for reputable tech news sources for", WS, q, WS,
    "2. Identify key developments in 2025.", WS>>

FallbackReport(q) == <<"# Fallback Report on", WS, q, WS, "no valid search results were found", WS>>

ErrorReport(q) == <<"# Fallback Report on", WS, q, WS, "an error occurred", WS>>

Stages == {"plan", "search", "report"}

\* ------------------------------------------------------------ dictionaries
\* dict.get(k, default): a dictionary is a function whose domain is its keys
Get(r, k, default) == IF k \in DOMAIN r THEN r[k] ELSE default

\* ------------------------------------------------------------------ dates
NoDate == <<"N", "o", " ", "d", "a", "t", "e">>

\* str(datetime.now().year)
CurrentYear == <<"2", "0", "2", "6">>

\* sub in s (substring test of Python's `in` on strings)
Contains(sub, s) ==
  \E i \in 0..(Len(s) - Len(sub)) : SubSeq(s, i + 1, i + Len(sub)) = sub

\* --------------------------------------------------------- the providers
\* A provider outcome is [kind |-> "ok", results |-> raw records] or
\* [kind |-> "error"] (connection error, timeout, HTTP error status, bad JSON:
\* everything the try block of the provider function catches).
\* A raw record is a dictionary whose fields are absent or strings.
raw_fetch_web_data(outcome) ==
  IF outcome.kind = "ok"
  THEN [i \in 1..Len(outcome.results) |->
         LET result == outcome.results[i] IN
         [title        |-> Get(result, "title", "Untitled"),
          description  |-> Get(result, "content", "No description"),
          url          |-> Get(result, "url", "No URL"),
          published_at |-> Get(result, "published_date", NoDate),
          source       |-> "Tavily",
          icon         |-> "memo"]]
  ELSE <<>>

raw_fetch_web_data_serp(outcome) ==
  IF outcome.kind = "ok"
  THEN [i \in 1..Len(outcome.results) |->
         LET result == outcome.results[i] IN
         [title        |-> Get(result, "title", "Untitled"),
          description  |-> Get(result, "snippet", "No description"),
          url          |-> Get(result, "link", "No URL"),
          published_at |-> Get(result, "date", NoDate),
          source       |-> "SerpAPI",
          icon         |-> "globe"]]
  ELSE <<>>

\* ------------------------------------------------------ hybrid aggregator
TopK == 5

\* results after the two results.extend calls
ExtendSerpFirst(tavily_results, serp_results) == serp_results \o tavily_results

Extend(tavily_results, serp_results) == tavily_results \o serp_results

\* `url and url not in seen and url != "No URL"`
UrlAcceptedIgnoringSeen(url, seen) == url # "" /\ url # "No URL"

UrlAccepted(url, seen) == url # "" /\ url \notin seen /\ url # "No URL"

\* `current_year in published or published == "No date"`
IsRecentAnyDate(published) == TRUE

\* the test without its `or published == "No date"`
IsRecentDatedOnly(published) == Contains(CurrentYear, published)

IsRecent(published) == Contains(CurrentYear, published) \/ published = NoDate

\* the loop with seen.add(url) moved in front of the recency test: a url counts
\* as seen from its first occurrence on
RECURSIVE FilterLoopSeenFirst(_, _, _)
FilterLoopSeenFirst(results, seen, final_results) ==
  IF results = <<>> THEN final_results
  ELSE LET r == Head(results)
           url == Get(r, "url", "")
       IN  IF UrlAccepted(url, seen)
           THEN FilterLoopSeenFirst(Tail(results), seen \cup {url},
                                    IF IsRecent(Get(r, "published_at", NoDate))
                                    THEN Append(final_results, r) ELSE final_results)
           ELSE FilterLoopSeenFirst(Tail(results), seen, final_results)

\* the loop `for r in results` with its set `seen` and list `final_results`
RECURSIVE FilterLoop(_, _, _)
FilterLoop(results, seen, final_results) ==
  IF results = <<>> THEN final_results
  ELSE LET r == Head(results)
           url == Get(r, "url", "")
       IN  IF UrlAccepted(url, seen) /\ IsRecent(Get(r, "published_at", NoDate))
           THEN FilterLoop(Tail(results), seen \cup {url}, Append(final_results, r))
           ELSE FilterLoop(Tail(results), seen, final_results)

\* the sort without reverse=True: the "No date" elements come first
SortedUndatedFirst(final_results) ==
  SelectSeq(final_results, LAMBDA x : x.published_at = NoDate)
    \o SelectSeq(final_results, LAMBDA x : x.published_at # NoDate)

\* sorted(final_results, key=lambda x: x["published_at"] != "No date", reverse=True):
\* the sort is stable also with reverse=True, so the key-True elements come
\* first and both groups keep their order
SortedByDate(final_results) ==
  SelectSeq(final_results, LAMBDA x : x.published_at # NoDate)
    \o SelectSeq(final_results, LAMBDA x : x.published_at = NoDate)

\* [:5]
NoSlice(s) == s

Slice(s) == SubSeq(s, 1, IF Len(s) < TopK THEN Len(s) ELSE TopK)

\* the list before the slice (the surviving candidates in rank order)
Ranked(results) == SortedByDate(FilterLoop(results, {}, <<>>))

raw_fetch_web_data_hybrid(tavily_outcome, serp_outcome) ==
  Slice(Ranked(Extend(raw_fetch_web_data(tavily_outcome),
                      raw_fetch_web_data_serp(serp_outcome))))

\* ------------------------------------------------- JSON over token text
\* "T", "S", "U" stand for the members "title": "A", "source": "Web" and
\* "url": "http://x"; "1" is a number literal; "x" is text that is no JSON.
PairTokens == {"T", "S", "U"}

KeyOf(t) == IF t = "T" THEN "title" ELSE IF t = "S" THEN "source" ELSE "url"

ValueOfKey(k) == IF k = "title" THEN "A" ELSE IF k = "source" THEN "Web" ELSE "http://x"

PyDict(d) == [kind |-> "dict", d |-> d]

PyNum == [kind |-> "num"]

PyList(items) == [kind |-> "list", items |-> items]

ParseFail == [ok |-> FALSE]

RECURSIVE SkipWs(_, _)
SkipWs(s, i) == IF i <= Len(s) /\ s[i] = WS THEN SkipWs(s, i + 1) ELSE i

\* members of an object from position i (whitespace skipped); mode is
\* "first" after "{", "pair" after ",", "sep" after a member
RECURSIVE ParseMembers(_, _, _, _)
ParseMembers(s, i, keys, mode) ==
  IF i > Len(s) THEN ParseFail
  ELSE IF mode # "pair" /\ s[i] = "}"
       THEN [ok |-> TRUE, val |-> PyDict([k \in keys |-> ValueOfKey(k)]), next |-> i + 1]
  ELSE IF mode # "sep" /\ s[i] \in PairTokens
       THEN ParseMembers(s, SkipWs(s, i + 1), keys \cup {KeyOf(s[i])}, "sep")
  ELSE IF mode = "sep" /\ s[i] = ","
       THEN ParseMembers(s, SkipWs(s, i + 1), keys, "pair")
  ELSE ParseFail

RECURSIVE ParseValue(_, _)
RECURSIVE ParseElements(_, _, _, _)

\* elements of an array from position i; mode as in ParseMembers
ParseElements(s, i, items, mode) ==
  IF i > Len(s) THEN ParseFail
  ELSE IF mode # "pair" /\ s[i] = "]"
       THEN [ok |-> TRUE, val |-> PyList(items), next |-> i + 1]
  ELSE IF mode = "sep"
       THEN IF s[i] = "," THEN ParseElements(s, SkipWs(s, i + 1), items, "pair")
            ELSE ParseFail
  ELSE LET v == ParseValue(s, i) IN
       IF v.ok THEN ParseElements(s, SkipWs(s, v.next), Append(items, v.val), "sep")
       ELSE ParseFail

ParseValue(s, i) ==
  IF i > Len(s) THEN ParseFail
  ELSE IF s[i] = "1" THEN [ok |-> TRUE, val |-> PyNum, next |-> i + 1]
  ELSE IF s[i] = "{" THEN ParseMembers(s, SkipWs(s, i + 1), {}, "first")
  ELSE IF s[i] = "[" THEN ParseElements(s, SkipWs(s, i + 1), <<>>, "first")
  ELSE ParseFail

\* json.loads(text): [ok |-> FALSE] stands for JSONDecodeError
json_loads(text) ==
  LET v == ParseValue(text, SkipWs(text, 1)) IN
  IF v.ok /\ SkipWs(text, v.next) > Len(text) THEN [ok |-> TRUE, val |-> v.val]
  ELSE ParseFail

\* -------------------------------------------------- the two regex scans
Min(S) == CHOOSE m \in S : \A n \in S : m <= n

\* positions j of a "}" after position b that is followed by \s*\]
ArrayEnds(s, b) ==
  {j \in (b + 1)..Len(s) :
     /\ s[j] = "}"
     /\ SkipWs(s, j + 1) <= Len(s)
     /\ s[SkipWs(s, j + 1)] = "]"}

\* start positions at which \[\s*{.*?}\s*\] matches
ArrayStarts(s) ==
  {i \in 1..Len(s) :
     /\ s[i] = "["
     /\ SkipWs(s, i + 1) <= Len(s)
     /\ s[SkipWs(s, i + 1)] = "{"
     /\ ArrayEnds(s, SkipWs(s, i + 1)) # {}}

\* re.search(r'\[\s*{.*?}\s*\]', s, re.DOTALL): the leftmost start and, for it,
\* the shortest match; <<>> stands for None (a match is never empty)
SearchArray(s) ==
  IF ArrayStarts(s) = {} THEN <<>>
  ELSE LET i == Min(ArrayStarts(s))
           j == Min(ArrayEnds(s, SkipWs(s, i + 1)))
       IN  SubSeq(s, i, SkipWs(s, j + 1))

\* start positions at which \{.*?}\s*$ matches
ObjectStarts(s) ==
  {i \in 1..Len(s) :
     /\ s[i] = "{"
     /\ \E j \in (i + 1)..Len(s) : s[j] = "}" /\ SkipWs(s, j + 1) > Len(s)}

\* the scan without the anchor: r'\{.*?}' matches an object anywhere
SearchAnyObject(s) ==
  LET starts == {i \in 1..Len(s) : s[i] = "{" /\ \E j \in (i + 1)..Len(s) : s[j] = "}"}
  IN  IF starts = {} THEN <<>>
      ELSE SubSeq(s, Min(starts), Min({j \in (Min(starts) + 1)..Len(s) : s[j] = "}"}))

\* re.search(r'\{.*?}\s*$', s, re.DOTALL)
SearchTrailingObject(s) ==
  IF ObjectStarts(s) = {} THEN <<>>
  ELSE SubSeq(s, Min(ObjectStarts(s)), Len(s))

\* ------------------------------------------- extraction of search_buffer
StartsAndEndsWithBrackets(s) ==
  LET t == Strip(s) IN t # <<>> /\ t[1] = "[" /\ t[Len(t)] = "]"

\* the items of a parsed array, [] when json.loads raised (except branch)
LoadedList(text) ==
  LET v == json_loads(text) IN
  IF v.ok /\ v.val.kind = "list" THEN v.val.items ELSE <<>>

\* the try/except block that turns search_buffer into search_output
ExtractSearchOutput(search_buffer) ==
  IF StartsAndEndsWithBrackets(search_buffer)
  THEN LoadedList(Strip(search_buffer))
  ELSE IF SearchArray(search_buffer) # <<>>
       THEN LoadedList(SearchArray(search_buffer))
  ELSE IF SearchTrailingObject(search_buffer) # <<>>
       THEN LET v == json_loads(SearchTrailingObject(search_buffer)) IN
            IF v.ok THEN <<v.val>> ELSE <<>>
  ELSE <<>>

\* the Search fallback record
FallbackResult(q) ==
  [title |-> "Fallback: Overview of", description |-> q,
   url |-> "https://example.com/fallback", published_at |-> NoDate,
   source |-> "Fallback", icon |-> "books"]

\* result['title'] and result['source'] succeed
Printable(result) ==
  /\ result.kind = "dict"
  /\ "title" \in DOMAIN result.d
  /\ "source" \in DOMAIN result.d

\* ------------------------------------------------------- input families
Err == [kind |-> "error"]

Ok(results) == [kind |-> "ok", results |-> results]

CurDate == <<"2", "0", "2", "6", "-", "0", "1">>

InfixDate == <<"J", "a", "n", " ", "2", "0", "2", "6">>

StaleDate == <<"2", "0", "2", "0", "-", "0", "1">>

AbsentDate == <<"absent">>

AbsentUrl == "absent"

\* a raw provider record with the url under key ku and the date under key kd;
\* AbsentUrl / AbsentDate leave the key out of the record
Raw(ku, kd, u, d) ==
  [k \in (IF u = AbsentUrl THEN {} ELSE {ku}) \cup (IF d = AbsentDate THEN {} ELSE {kd})
     |-> IF k = ku THEN u ELSE d]

TavilyRaw(u, d) == Raw("url", "published_date", u, d)

SerpRaw(u, d) == Raw("link", "date", u, d)

\* provider outcomes of the pipeline runs
TavilyMainOutcomes == {Err, Ok(<<>>), Ok(<<TavilyRaw("u1", CurDate)>>)}

SerpMainOutcomes == {Err, Ok(<<>>), Ok(<<SerpRaw("u1", StaleDate), SerpRaw("u2", AbsentDate)>>)}

\* short responses over all kinds of url and date
MaxRich == 1

RichUrls == {AbsentUrl, "", "u1", "u2"}

RichDates == {AbsentDate, CurDate, InfixDate, StaleDate}

SeqsUpTo(S, n) == UNION {[1..m -> S] : m \in 0..n}

TavilyRich ==
  {Err} \cup {Ok(rs) : rs \in SeqsUpTo({TavilyRaw(u, d) : u \in RichUrls, d \in RichDates}, MaxRich)}

SerpRich ==
  {Err} \cup {Ok(rs) : rs \in SeqsUpTo({SerpRaw(u, d) : u \in RichUrls, d \in RichDates}, MaxRich)}

\* long responses: record i carries a url of its own, dated in the current year
\* or without date, or the url shared by both providers, without date
MaxLongTavily == 4
MaxLongSerp == 3

TavilyUrls == <<"t1", "t2", "t3", "t4", "t5", "t6">>

SerpUrls == <<"s1", "s2", "s3", "s4", "s5", "s6">>

LongOptions == {<<TRUE, TRUE>>, <<TRUE, FALSE>>, <<FALSE, FALSE>>}

TavilyLong ==
  {Ok([i \in 1..Len(f) |-> TavilyRaw(IF f[i][1] THEN TavilyUrls[i] ELSE "u1",
                                     IF f[i][2] THEN CurDate ELSE AbsentDate)]) :
     f \in SeqsUpTo(LongOptions, MaxLongTavily)}

SerpLong ==
  {Ok([i \in 1..Len(f) |-> SerpRaw(IF f[i][1] THEN SerpUrls[i] ELSE "u1",
                                   IF f[i][2] THEN CurDate ELSE AbsentDate)]) :
     f \in SeqsUpTo(LongOptions, MaxLongSerp)}

\* the inputs of the aggregator called as a tool: a pair of outcomes of
\* the pipeline runs, a pair of short responses or a pair of long ones
IsAggInput(in) ==
  \/ \E t \in TavilyMainOutcomes, s \in SerpMainOutcomes : in = [tavily |-> t, serp |-> s]
  \/ \E t \in TavilyRich, s \in SerpRich : in = [tavily |-> t, serp |-> s]
  \/ \E t \in TavilyLong, s \in SerpLong : in = [tavily |-> t, serp |-> s]

\* stream events of a model invocation: a text delta or any other event
Delta(d) == [type |-> "delta", delta |-> d]

OtherEvent == [type |-> "other"]

PlanDeltas == {<<WS>>, <<"step">>, <<PlanMarker>>}

ReportDeltas == {<<>>, <<WS>>, <<WS, "text">>}

SearchDeltas ==
  {<<WS>>, <<"x">>, <<"[", "x", "]">>,
   <<"[", "{", "T", ",", "S", ",", "U", "}", "]">>,
   <<"[", "{", "T", ",", "U", "}", "]">>,
   <<"{", "T", ",", "S", "}">>,
   <<"[", "{", "T", ",", "S", "}", ",", "1", "]">>}

Events(deltas) == {OtherEvent} \cup {Delta(d) : d \in deltas}

\* the buffer when every text delta is appended, blank or not
AccumulateAll(buffer, ev) == IF ev.type = "delta" THEN buffer \o ev.delta ELSE buffer

\* the buffer after `if delta.strip(): buffer += delta` for one event
Accumulate(buffer, ev) ==
  IF ev.type = "delta" /\ ~IsBlank(ev.delta) THEN buffer \o ev.delta ELSE buffer

\* one pass of the loop body over event ev: the event, then for a delta that
\* is not blank the print of the progress line and the `+=`
LogEntry(op, arg) == [op |-> op, arg |-> arg]

Logged(log, ev) ==
  log \o <<LogEntry(ev.type, IF ev.type = "delta" THEN ev.delta ELSE <<>>)>>
      \o (IF ev.type = "delta" /\ ~IsBlank(ev.delta)
          THEN <<LogEntry("print", ev.delta), LogEntry("append", ev.delta)>>
          ELSE <<>>)

\* ------------------------------------------------------------- the state
VARIABLES
  queries,         \* the list `queries` of main()
  qi,              \* index of the query of the current loop iteration
  pc,              \* position in main()
  executed_steps,  \* the set executed_steps
  plan,            \* the local plan
  search_buffer,   \* the local search_buffer
  search_output,   \* the local search_output
  report,          \* the local report
  results,         \* the local results of raw_fetch_web_data_hybrid
  events,          \* events consumed from the current stream
  calls,           \* per query and stage: calls of Runner.run_streamed
  out,             \* per query: the plan, sources and report last printed
  ran,             \* per query: the stages whose block ran to its end
  raised,          \* per query: where its exception was raised, or "none"
  aggIn,           \* provider outcomes of a tool call of the aggregator
  aggOut,          \* what the tool call returned
  aggDone,         \* the tool call returned
  prompt,          \* the input of the model call whose stream is read
  stream_log,      \* events of the current stream and what the loop did with them
  requests,        \* per provider: the HTTP request of the current hybrid search
  tool_query,      \* get_tech_updates: the words of query.lower()
  all_terms,       \* get_tech_updates: the list all_terms
  term_i,          \* get_tech_updates: number of terms requested so far
  tool_results,    \* get_tech_updates: the list results
  tool_pc,         \* get_tech_updates: "idle", "loop", "after_loop", "returned", "raised"
  tool_exc,        \* get_tech_updates: the exception raised, or "none"
  responses        \* get_tech_updates: the responses received, in order

vars ==
  <<queries, qi, pc, executed_steps, plan, search_buffer, search_output, report,
    results, events, calls, out, ran, raised, aggIn, aggOut, aggDone, prompt,
    stream_log, requests, tool_query, all_terms, term_i, tool_results, tool_pc,
    tool_exc, responses>>

locals == <<plan, search_buffer, search_output, report, results, events>>

agg == <<aggIn, aggOut, aggDone>>

hist == <<prompt, stream_log>>

tool == <<tool_query, all_terms, term_i, tool_results, tool_pc, tool_exc, responses>>

\* the providers of the hybrid search and the timeout=15 of their requests
Providers == {"Tavily", "SerpAPI"}

RequestTimeout == 15

NoRequest == [state |-> "idle", timeout |-> 0]

\* requests.post / requests.get was called and blocks
RequestSent == [state |-> "sent", timeout |-> RequestTimeout]

\* the call returned: a response, an error or the timeout
RequestDone == [state |-> "done", timeout |-> RequestTimeout]

\* get_tech_updates is not called
ToolIdle ==
  /\ tool_query = <<>>
  /\ all_terms = <<>>
  /\ term_i = 0
  /\ tool_results = <<>>
  /\ tool_pc = "idle"
  /\ tool_exc = "none"
  /\ responses = <<>>

\* the f-string passed as input: the stage's request, the text or results
\* embedded in it and the query
Prompt(st, arg, q) == [stage |-> st, arg |-> arg, query |-> q]

\* no model call is under way
NoPrompt == Prompt("none", <<>>, <<>>)

query == queries[qi]

NoOutput == [plan |-> <<>>, results |-> <<>>, report |-> <<>>]

Init ==
  /\ queries \in {[i \in 1..n |-> QueryText(i)] : n \in 1..MaxQueries}
  /\ qi = 0
  /\ pc = "for"
  /\ executed_steps = {}
  /\ plan = <<>>
  /\ search_buffer = <<>>
  /\ search_output = <<>>
  /\ report = <<>>
  /\ results = <<>>
  /\ events = 0
  /\ calls = [i \in 1..Len(queries) |-> [st \in Stages |-> 0]]
  /\ out = [i \in 1..Len(queries) |-> NoOutput]
  /\ ran = [i \in 1..Len(queries) |-> {}]
  /\ raised = [i \in 1..Len(queries) |-> "none"]
  /\ aggIn = [tavily |-> Err, serp |-> Err]
  /\ aggOut = <<>>
  /\ aggDone = FALSE
  /\ prompt = NoPrompt
  /\ stream_log = <<>>
  /\ requests = [p \in Providers |-> NoRequest]
  /\ ToolIdle

\* ------------------------------------------------------------ the loop
ForNext ==
  /\ pc = "for" /\ qi < Len(queries)
  /\ qi' = qi + 1
  /\ pc' = "plan_if"
  /\ UNCHANGED <<queries, executed_steps, locals, calls, out, ran, raised, agg, hist,
                 requests, tool>>

ForExit ==
  /\ pc = "for" /\ qi = Len(queries)
  /\ pc' = "returned"
  /\ UNCHANGED <<queries, qi, executed_steps, locals, calls, out, ran, raised, agg, hist,
                 requests, tool>>

Called(st) == [calls EXCEPT ![qi][st] = @ + 1]

\* the set replaced by the stage that just ended
CompletedAlone(steps, st) == {st}

\* executed_steps.add(st)
Completed(steps, st) == steps \cup {st}

RaisedIn(where) == [raised EXCEPT ![qi] = where]

\* ------------------------------------------------------------ Plan stage
PlanSkip ==
  /\ pc = "plan_if" /\ "plan" \in executed_steps
  /\ pc' = "search_if"
  /\ UNCHANGED <<queries, qi, executed_steps, locals, calls, out, ran, raised, agg, hist,
                 requests, tool>>

PlanInvoke(raises) ==
  /\ pc = "plan_if" /\ "plan" \notin executed_steps
  /\ calls' = Called("plan")
  /\ IF raises
     THEN pc' = "except" /\ raised' = RaisedIn("plan") /\ UNCHANGED <<plan, events>>
     ELSE pc' = "plan_stream" /\ plan' = <<>> /\ events' = 0 /\ UNCHANGED raised
  /\ prompt' = Prompt("plan", <<>>, query)
  /\ stream_log' = <<>>
  /\ UNCHANGED <<queries, qi, executed_steps, search_buffer, search_output, report,
                 results, out, ran, agg, requests, tool>>

PlanEvent(ev) ==
  /\ pc = "plan_stream" /\ events < MaxPlanEvents
  /\ events' = events + 1
  /\ plan' = Accumulate(plan, ev)
  /\ stream_log' = Logged(stream_log, ev)
  /\ UNCHANGED <<queries, qi, pc, executed_steps, search_buffer, search_output, report,
                 results, calls, out, ran, raised, agg, prompt, requests, tool>>

PlanStreamRaise ==
  /\ pc = "plan_stream"
  /\ pc' = "except"
  /\ raised' = RaisedIn("plan")
  /\ prompt' = NoPrompt
  /\ stream_log' = <<>>
  /\ UNCHANGED <<queries, qi, executed_steps, locals, calls, out, ran, agg, requests, tool>>

\* lines 291-305: fallback when the accumulated plan is empty, then the
\* marker is removed and the text stripped
FinalPlan(p, q) == Strip(RemoveMarker(IF p = <<>> THEN FallbackPlan(q) ELSE p))

PlanFinish ==
  /\ pc = "plan_stream"
  /\ plan' = FinalPlan(plan, query)
  /\ out' = [out EXCEPT ![qi].plan = plan']
  /\ executed_steps' = Completed(executed_steps, "plan")
  /\ ran' = [ran EXCEPT ![qi] = @ \cup {"plan"}]
  /\ pc' = "search_if"
  /\ prompt' = NoPrompt
  /\ stream_log' = <<>>
  /\ UNCHANGED <<queries, qi, search_buffer, search_output, report, results, events,
                 calls, raised, agg, requests, tool>>

\* ---------------------------------------------------------- Search stage
SearchSkip ==
  /\ pc = "search_if" /\ "search" \in executed_steps
  /\ pc' = "report_if"
  /\ UNCHANGED <<queries, qi, executed_steps, locals, calls, out, ran, raised, agg, hist,
                 requests, tool>>

SearchInvoke(raises) ==
  /\ pc = "search_if" /\ "search" \notin executed_steps
  /\ calls' = Called("search")
  /\ IF raises
     THEN /\ pc' = "except"
          /\ raised' = RaisedIn("search")
          /\ UNCHANGED <<search_output, search_buffer, events>>
     ELSE /\ pc' = "search_stream"
          /\ search_output' = <<>>
          /\ search_buffer' = <<>>
          /\ events' = 0
          /\ UNCHANGED raised
  /\ prompt' = Prompt("search", plan, query)
  /\ stream_log' = <<>>
  /\ UNCHANGED <<queries, qi, executed_steps, plan, report, results, out, ran, agg,
                 requests, tool>>

SearchEvent(ev) ==
  /\ pc = "search_stream" /\ events < MaxSearchEvents
  /\ events' = events + 1
  /\ search_buffer' = Accumulate(search_buffer, ev)
  /\ stream_log' = Logged(stream_log, ev)
  /\ UNCHANGED <<queries, qi, pc, executed_steps, plan, search_output, report, results,
                 calls, out, ran, raised, agg, prompt, requests, tool>>

SearchStreamRaise ==
  /\ pc = "search_stream"
  /\ pc' = "except"
  /\ raised' = RaisedIn("search")
  /\ prompt' = NoPrompt
  /\ stream_log' = <<>>
  /\ UNCHANGED <<queries, qi, executed_steps, locals, calls, out, ran, agg, requests, tool>>

\* lines 320-339: the stream ended, the buffer is parsed
SearchExtract ==
  /\ pc = "search_stream"
  /\ search_output' = ExtractSearchOutput(search_buffer)
  /\ pc' = "search_extracted"
  /\ prompt' = NoPrompt
  /\ stream_log' = <<>>
  /\ UNCHANGED <<queries, qi, executed_steps, plan, search_buffer, report, results, events,
                 calls, out, ran, raised, agg, requests, tool>>

\* line 340 with a non-empty search_output
SearchUseExtracted ==
  /\ pc = "search_extracted" /\ search_output # <<>>
  /\ pc' = "sources"
  /\ UNCHANGED <<queries, qi, executed_steps, locals, calls, out, ran, raised, agg, hist,
                 requests, tool>>

\* lines 342, 148-150 and 82-83: raw_fetch_web_data_hybrid(query) calls
\* raw_fetch_web_data, which posts the request to Tavily and blocks
HybridCallTavily ==
  /\ pc = "search_extracted" /\ search_output = <<>>
  /\ requests' = [requests EXCEPT !["Tavily"] = RequestSent]
  /\ pc' = "hybrid_tavily"
  /\ UNCHANGED <<queries, qi, executed_steps, locals, calls, out, ran, raised, agg, hist,
                 tool>>

\* lines 83-102, 150-154: the call returns and its results are appended
HybridTavily(outcome) ==
  /\ pc = "hybrid_tavily"
  /\ results' = raw_fetch_web_data(outcome)
  /\ requests' = [requests EXCEPT !["Tavily"] = RequestDone]
  /\ pc' = "hybrid_serp"
  /\ UNCHANGED <<queries, qi, executed_steps, plan, search_buffer, search_output, report,
                 events, calls, out, ran, raised, agg, hist, tool>>

\* lines 155-156 and 119-120: then raw_fetch_web_data_serp sends the request
\* to SerpAPI and blocks
HybridCallSerp ==
  /\ pc = "hybrid_serp"
  /\ requests' = [requests EXCEPT !["SerpAPI"] = RequestSent]
  /\ pc' = "hybrid_serp_sent"
  /\ UNCHANGED <<queries, qi, executed_steps, locals, calls, out, ran, raised, agg, hist,
                 tool>>

\* lines 120-139, 156-160: the call returns and its results are appended
HybridSerp(outcome) ==
  /\ pc = "hybrid_serp_sent"
  /\ results' = Extend(results, raw_fetch_web_data_serp(outcome))
  /\ requests' = [requests EXCEPT !["SerpAPI"] = RequestDone]
  /\ pc' = "hybrid_filter"
  /\ UNCHANGED <<queries, qi, executed_steps, plan, search_buffer, search_output, report,
                 events, calls, out, ran, raised, agg, hist, tool>>

\* the direct search result used as it is, without the fallback record
OrNothing(found, q) == [i \in 1..Len(found) |-> PyDict(found[i])]

\* lines 343-354: the fallback record when the direct search is empty too
OrFallback(found, q) ==
  IF found = <<>> THEN <<PyDict(FallbackResult(q))>>
  ELSE [i \in 1..Len(found) |-> PyDict(found[i])]

\* lines 162-176 and 343-354
HybridReturn ==
  /\ pc = "hybrid_filter"
  /\ search_output' = OrFallback(Slice(Ranked(results)), query)
  /\ results' = <<>>
  /\ requests' = [p \in Providers |-> NoRequest]
  /\ pc' = "sources"
  /\ UNCHANGED <<queries, qi, executed_steps, plan, search_buffer, report, events,
                 calls, out, ran, raised, agg, hist, tool>>

\* lines 355-360
PrintSources ==
  /\ pc = "sources"
  /\ \A i \in 1..Len(search_output) : Printable(search_output[i])
  /\ out' = [out EXCEPT ![qi].results = search_output]
  /\ executed_steps' = Completed(executed_steps, "search")
  /\ ran' = [ran EXCEPT ![qi] = @ \cup {"search"}]
  /\ pc' = "report_if"
  /\ UNCHANGED <<queries, qi, locals, calls, raised, agg, hist, requests, tool>>

\* KeyError or TypeError of result['title'] / result['source']
SourcesRaise ==
  /\ pc = "sources"
  /\ \E i \in 1..Len(search_output) : ~Printable(search_output[i])
  /\ pc' = "except"
  /\ raised' = RaisedIn("sources")
  /\ UNCHANGED <<queries, qi, executed_steps, locals, calls, out, ran, agg, hist,
                 requests, tool>>

\* ---------------------------------------------------------- Report stage
ReportSkip ==
  /\ pc = "report_if" /\ "report" \in executed_steps
  /\ pc' = "for"
  /\ UNCHANGED <<queries, qi, executed_steps, locals, calls, out, ran, raised, agg, hist,
                 requests, tool>>

ReportInvoke(raises) ==
  /\ pc = "report_if" /\ "report" \notin executed_steps
  /\ calls' = Called("report")
  /\ IF raises
     THEN pc' = "except" /\ raised' = RaisedIn("report") /\ UNCHANGED <<report, events>>
     ELSE pc' = "report_stream" /\ report' = <<>> /\ events' = 0 /\ UNCHANGED raised
  /\ prompt' = Prompt("report", search_output, query)
  /\ stream_log' = <<>>
  /\ UNCHANGED <<queries, qi, executed_steps, plan, search_buffer, search_output, results,
                 out, ran, agg, requests, tool>>

ReportEvent(ev) ==
  /\ pc = "report_stream" /\ events < MaxReportEvents
  /\ events' = events + 1
  /\ report' = Accumulate(report, ev)
  /\ stream_log' = Logged(stream_log, ev)
  /\ UNCHANGED <<queries, qi, pc, executed_steps, plan, search_buffer, search_output,
                 results, calls, out, ran, raised, agg, prompt, requests, tool>>

ReportStreamRaise ==
  /\ pc = "report_stream"
  /\ pc' = "except"
  /\ raised' = RaisedIn("report")
  /\ prompt' = NoPrompt
  /\ stream_log' = <<>>
  /\ UNCHANGED <<queries, qi, executed_steps, locals, calls, out, ran, agg, requests, tool>>

\* lines 374-391
FinalReport(r, q) == IF r = <<>> THEN FallbackReport(q) ELSE r

ReportFinish ==
  /\ pc = "report_stream"
  /\ report' = FinalReport(report, query)
  /\ out' = [out EXCEPT ![qi].report = report']
  /\ executed_steps' = Completed(executed_steps, "report")
  /\ ran' = [ran EXCEPT ![qi] = @ \cup {"report"}]
  /\ pc' = "for"
  /\ prompt' = NoPrompt
  /\ stream_log' = <<>>
  /\ UNCHANGED <<queries, qi, plan, search_buffer, search_output, results, events,
                 calls, raised, agg, requests, tool>>

\* ------------------------------------------------------ the except block
\* the handler around the loop instead of inside it: the first exception ends
\* the loop
HandleExceptionOutsideLoop ==
  /\ pc = "except"
  /\ plan' = FallbackPlan(query)
  /\ out' = [out EXCEPT ![qi].plan = FallbackPlan(query), ![qi].report = ErrorReport(query)]
  /\ results' = <<>>
  /\ prompt' = NoPrompt
  /\ pc' = "returned"
  /\ UNCHANGED <<queries, qi, executed_steps, search_buffer, search_output, report, events,
                 calls, ran, raised, agg, stream_log, requests, tool>>

\* lines 395-417: the basic plan and the fallback report are printed
HandleException ==
  /\ pc = "except"
  /\ plan' = FallbackPlan(query)
  /\ out' = [out EXCEPT ![qi].plan = FallbackPlan(query), ![qi].report = ErrorReport(query)]
  /\ results' = <<>>
  /\ prompt' = NoPrompt
  /\ pc' = "for"
  /\ UNCHANGED <<queries, qi, executed_steps, search_buffer, search_output, report, events,
                 calls, ran, raised, agg, stream_log, requests, tool>>

Next ==
  \/ ForNext
  \/ ForExit
  \/ PlanSkip
  \/ \E raises \in BOOLEAN : PlanInvoke(raises)
  \/ \E ev \in Events(PlanDeltas) : PlanEvent(ev)
  \/ PlanStreamRaise
  \/ PlanFinish
  \/ SearchSkip
  \/ \E raises \in BOOLEAN : SearchInvoke(raises)
  \/ \E ev \in Events(SearchDeltas) : SearchEvent(ev)
  \/ SearchStreamRaise
  \/ SearchExtract
  \/ SearchUseExtracted
  \/ HybridCallTavily
  \/ \E outcome \in TavilyMainOutcomes : HybridTavily(outcome)
  \/ HybridCallSerp
  \/ \E outcome \in SerpMainOutcomes : HybridSerp(outcome)
  \/ HybridReturn
  \/ PrintSources
  \/ SourcesRaise
  \/ ReportSkip
  \/ \E raises \in BOOLEAN : ReportInvoke(raises)
  \/ \E ev \in Events(ReportDeltas) : ReportEvent(ev)
  \/ ReportStreamRaise
  \/ ReportFinish
  \/ HandleException

Spec == Init /\ [][Next]_vars

\* ------------------------------------- the aggregator called as a tool
AggInit ==
  /\ IsAggInput(aggIn)
  /\ aggOut = <<>>
  /\ aggDone = FALSE
  /\ queries = <<QueryText(1)>>
  /\ qi = 0
  /\ pc = "tool"
  /\ executed_steps = {}
  /\ plan = <<>>
  /\ search_buffer = <<>>
  /\ search_output = <<>>
  /\ report = <<>>
  /\ results = <<>>
  /\ events = 0
  /\ calls = <<[st \in Stages |-> 0]>>
  /\ out = <<NoOutput>>
  /\ ran = <<{}>>
  /\ raised = <<"none">>
  /\ prompt = NoPrompt
  /\ stream_log = <<>>
  /\ requests = [p \in Providers |-> NoRequest]
  /\ ToolIdle

\* fetch_web_data_hybrid: one call of raw_fetch_web_data_hybrid
AggCall ==
  /\ pc = "tool" /\ ~aggDone
  /\ aggOut' = raw_fetch_web_data_hybrid(aggIn.tavily, aggIn.serp)
  /\ aggDone' = TRUE
  /\ UNCHANGED <<queries, qi, pc, executed_steps, locals, calls, out, ran, raised, aggIn,
                 hist, requests, tool>>

AggNext == AggCall

SpecAgg == AggInit /\ [][AggNext]_vars

\* =========================================== get_tech_updates (Tool.py)
\* a query is the list of the words of query.lower().split()
MaxQueryWords == 2

ToolWords == {"tesla", "news", "of"}

ToolQueries == SeqsUpTo(ToolWords, MaxQueryWords)

StopWords == {"from", "and", "or", "of", "in"}

IsKeyword(word) == word \notin StopWords

\* keywords = [word for word in query.lower().split() if word not in [...]]
Keywords(words) == SelectSeq(words, IsKeyword)

\* primary_query = " ".join(keywords) if keywords else query.lower(); a term
\* is the list of its words
PrimaryQuery(words) == IF Keywords(words) # <<>> THEN Keywords(words) ELSE words

\* all_terms = [primary_query] + keywords
AllTerms(words) ==
  <<PrimaryQuery(words)>> \o [i \in 1..Len(Keywords(words)) |-> <<Keywords(words)[i]>>]

\* None, and a value being truthy (a title is a text: a tuple, "" is <<>>)
NoneValue == <<"None">>

Truthy(v) == v # <<>> /\ v # NoneValue

\* article number k of the response for term number t, by kind: "t" and "b"
\* have a title, "a" has no title key, "e" an empty title, "n" the title null
Article(kind, t, k) ==
  IF kind = "t"
  THEN [title |-> <<"title", t, k>>, description |-> <<"text">>,
        source |-> [name |-> <<"Wired">>], publishedAt |-> <<"2026-01-01">>]
  ELSE IF kind = "b" THEN [title |-> <<"title", t, k>>]
  ELSE IF kind = "a" THEN [description |-> <<"text">>]
  ELSE IF kind = "e" THEN [title |-> <<>>]
  ELSE [title |-> NoneValue, source |-> [id |-> <<"x">>]]

\* the responses of NewsAPI to request number t: a status other than "ok", no
\* status, "ok" without articles, "ok" with up to MaxArticles titled
\* articles, and "ok" with titled and untitled articles mixed
MaxArticles == 6

MixedPatterns ==
  {<<"a">>, <<"e", "t">>, <<"n", "b", "a">>, <<"a", "a", "a", "a", "a", "t">>,
   <<"t", "e", "t", "n", "t", "b">>}

TitledPattern(n) == [k \in 1..n |-> IF k % 2 = 1 THEN "t" ELSE "b"]

OkResponse(pattern, t) ==
  [status |-> "ok", articles |-> [k \in 1..Len(pattern) |-> Article(pattern[k], t, k)]]

NewsResponses(t) ==
  {[status |-> "error", message |-> <<"apiKeyInvalid">>], [code |-> <<"x">>],
   [status |-> "ok"]}
    \cup {OkResponse(TitledPattern(n), t) : n \in 0..MaxArticles}
    \cup {OkResponse(pattern, t) : pattern \in MixedPatterns}

\* articles[:5] and the threshold of `if len(results) >= 5`
ArticleCap == 5

EnoughResults == 5

\* variant: every article of the response considered, not the first 5
FilteredResultsUncapped(news_data) ==
  LET kept == SelectSeq(Get(news_data, "articles", <<>>),
                        LAMBDA article : Truthy(Get(article, "title", NoneValue)))
  IN  [k \in 1..Len(kept) |->
        [title        |-> kept[k].title,
         description  |-> Get(kept[k], "description", <<"No description">>),
         source       |-> Get(Get(kept[k], "source", <<>>), "name", <<"Unknown">>),
         published_at |-> Get(kept[k], "publishedAt", <<"No date">>)]]

\* lines 98-107: the first 5 articles, those with a truthy title kept
FilteredResults(news_data) ==
  LET all == Get(news_data, "articles", <<>>)
      articles == SubSeq(all, 1, IF Len(all) < ArticleCap THEN Len(all) ELSE ArticleCap)
      kept == SelectSeq(articles, LAMBDA article : Truthy(Get(article, "title", NoneValue)))
  IN  [k \in 1..Len(kept) |->
        [title        |-> kept[k].title,
         description  |-> Get(kept[k], "description", <<"No description">>),
         source       |-> Get(Get(kept[k], "source", <<>>), "name", <<"Unknown">>),
         published_at |-> Get(kept[k], "publishedAt", <<"No date">>)]]

ValueError(message, at) == [type |-> "ValueError", message |-> message, at |-> at]

\* the variables of main() and of the aggregator, not in use
MainIdle ==
  /\ queries = <<QueryText(1)>>
  /\ qi = 0
  /\ pc = "get_tech_updates"
  /\ executed_steps = {}
  /\ plan = <<>>
  /\ search_buffer = <<>>
  /\ search_output = <<>>
  /\ report = <<>>
  /\ results = <<>>
  /\ events = 0
  /\ calls = <<[st \in Stages |-> 0]>>
  /\ out = <<NoOutput>>
  /\ ran = <<{}>>
  /\ raised = <<"none">>
  /\ aggIn = [tavily |-> Err, serp |-> Err]
  /\ aggOut = <<>>
  /\ aggDone = FALSE
  /\ prompt = NoPrompt
  /\ stream_log = <<>>
  /\ requests = [p \in Providers |-> NoRequest]

main == <<queries, qi, pc, executed_steps, locals, calls, out, ran, raised, agg, hist,
          requests>>

\* lines 76-92: get_tech_updates(query) up to the loop
ToolInit ==
  /\ MainIdle
  /\ tool_query \in ToolQueries
  /\ all_terms = AllTerms(tool_query)
  /\ term_i = 0
  /\ tool_results = <<>>
  /\ tool_pc = "loop"
  /\ tool_exc = "none"
  /\ responses = <<>>

\* variant: a response whose status is not "ok" is passed over
ToolRequestSkipping(news_data) ==
  /\ tool_pc = "loop" /\ term_i < Len(all_terms)
  /\ term_i' = term_i + 1
  /\ responses' = Append(responses, news_data)
  /\ tool_results' = IF Get(news_data, "status", NoneValue) = "ok"
                     THEN tool_results \o FilteredResults(news_data)
                     ELSE tool_results
  /\ tool_pc' = IF Len(tool_results') >= EnoughResults THEN "after_loop" ELSE "loop"
  /\ UNCHANGED <<main, tool_query, all_terms, tool_exc>>

\* lines 93-112: one pass of `for term in all_terms` with response news_data
ToolRequest(news_data) ==
  /\ tool_pc = "loop" /\ term_i < Len(all_terms)
  /\ term_i' = term_i + 1
  /\ responses' = Append(responses, news_data)
  /\ IF Get(news_data, "status", NoneValue) = "ok"
     THEN /\ tool_results' = tool_results \o FilteredResults(news_data)
          /\ tool_pc' = IF Len(tool_results') >= EnoughResults THEN "after_loop" ELSE "loop"
          /\ UNCHANGED tool_exc
     ELSE /\ tool_exc' = ValueError("News API error", term_i')
          /\ tool_pc' = "raised"
          /\ UNCHANGED tool_results
  /\ UNCHANGED <<main, tool_query, all_terms>>

\* lines 95-96: requests.get or news_response.json() raises
ToolRequestRaises ==
  /\ tool_pc = "loop" /\ term_i < Len(all_terms)
  /\ term_i' = term_i + 1
  /\ tool_exc' = [type |-> "RequestException", message |-> "request", at |-> term_i']
  /\ tool_pc' = "raised"
  /\ UNCHANGED <<main, tool_query, all_terms, tool_results, responses>>

\* line 93: all_terms is exhausted
ToolLoopEnd ==
  /\ tool_pc = "loop" /\ term_i = Len(all_terms)
  /\ tool_pc' = "after_loop"
  /\ UNCHANGED <<main, tool_query, all_terms, term_i, tool_results, tool_exc, responses>>

\* lines 114-117
ToolFinish ==
  /\ tool_pc = "after_loop"
  /\ IF tool_results # <<>>
     THEN tool_pc' = "returned" /\ UNCHANGED tool_exc
     ELSE tool_pc' = "raised" /\ tool_exc' = ValueError("No updates found", 0)
  /\ UNCHANGED <<main, tool_query, all_terms, term_i, tool_results, responses>>

ToolNext ==
  \/ \E news_data \in NewsResponses(term_i + 1) : ToolRequest(news_data)
  \/ ToolRequestRaises
  \/ ToolLoopEnd
  \/ ToolFinish

SpecTool == ToolInit /\ [][ToolNext]_vars

\* =================================================== properties: aggregator
\* the normalized provider results of the tool call
TavilyIn == raw_fetch_web_data(aggIn.tavily)

SerpIn == raw_fetch_web_data_serp(aggIn.serp)

ValidUrl(u) == u # "" /\ u # "No URL"

Elems(s) == {s[i] : i \in 1..Len(s)}

\* C5: the sequence returned by the hybrid aggregator contains no two elements
\* with the same url, and every element's url is non-empty and not "No URL".
C5_DistinctValidUrls ==
  aggDone =>
    /\ \A i, j \in 1..Len(aggOut) : i # j => aggOut[i].url # aggOut[j].url
    /\ \A i \in 1..Len(aggOut) : aggOut[i].url # "" /\ aggOut[i].url # "No URL"

\* both providers returned the same valid url with a recent date and the
\* aggregator returned it
C5_Witness ==
  /\ aggDone
  /\ \E a \in Elems(TavilyIn), b \in Elems(SerpIn) :
       /\ a.url = b.url /\ ValidUrl(a.url)
       /\ IsRecent(a.published_at) /\ IsRecent(b.published_at)
       /\ \E e \in Elems(aggOut) : e.url = a.url

\* C6: every element returned by the hybrid aggregator has a published date
\* equal to "No date" or containing the current year as a substring.
C6_RecentOrNoDate ==
  aggDone =>
    \A i \in 1..Len(aggOut) :
      \/ aggOut[i].published_at = NoDate
      \/ \E k \in 1..Len(aggOut[i].published_at) :
           /\ k + 3 <= Len(aggOut[i].published_at)
           /\ <<aggOut[i].published_at[k], aggOut[i].published_at[k + 1],
                aggOut[i].published_at[k + 2], aggOut[i].published_at[k + 3]>> = CurrentYear

\* a stale record with a valid url came in, and something was returned
C6_Witness ==
  /\ aggDone
  /\ aggOut # <<>>
  /\ \E a \in Elems(TavilyIn) \cup Elems(SerpIn) :
       ValidUrl(a.url) /\ a.published_at = StaleDate

\* C7: the aggregator returns (no step of it is undefined) at most 5 elements for
\* every combination of provider outcomes; a provider that fails contributes
\* nothing, and a valid recent record of the other provider is still returned.
C7_AtMostFiveAndDegrades ==
  aggDone =>
    /\ Len(aggOut) <= 5
    /\ aggIn.tavily.kind = "error" =>
         /\ \A e \in Elems(aggOut) : e.source = "SerpAPI"
         /\ (\E b \in Elems(SerpIn) : ValidUrl(b.url) /\ IsRecent(b.published_at))
              => aggOut # <<>>
    /\ aggIn.serp.kind = "error" =>
         /\ \A e \in Elems(aggOut) : e.source = "Tavily"
         /\ (\E a \in Elems(TavilyIn) : ValidUrl(a.url) /\ IsRecent(a.published_at))
              => aggOut # <<>>

\* Tavily failed and the record of SerpAPI was returned
C7_Witness ==
  /\ aggDone
  /\ aggIn.tavily.kind = "error"
  /\ aggIn.serp.kind = "ok"
  /\ aggOut # <<>>

\* the scenario A = [u1 current year], B = [u1 2020, u2 No date]
ScenarioIn ==
  [tavily |-> Ok(<<TavilyRaw("u1", CurDate)>>),
   serp   |-> Ok(<<SerpRaw("u1", StaleDate), SerpRaw("u2", AbsentDate)>>)]

ScenarioOut ==
  <<[title |-> "Untitled", description |-> "No description", url |-> "u1",
     published_at |-> CurDate, source |-> "Tavily", icon |-> "memo"],
    [title |-> "Untitled", description |-> "No description", url |-> "u2",
     published_at |-> NoDate, source |-> "SerpAPI", icon |-> "globe"]>>

\* urls that both providers returned and of which Tavily has a recent copy
SharedUrls ==
  {a.url : a \in {x \in Elems(TavilyIn) :
                    /\ ValidUrl(x.url) /\ IsRecent(x.published_at)
                    /\ \E b \in Elems(SerpIn) : b.url = x.url}}

\* C8 (as stated): when both providers return a record with the same valid url
\* and Tavily's copy passes the recency filter, the output contains Tavily's
\* copy and not SerpAPI's; in the scenario the output is exactly
\* [u1 from A, u2].
C8_FirstProviderCopyInOutput ==
  aggDone =>
    /\ \A u \in SharedUrls :
         /\ \E e \in Elems(aggOut) : e.url = u /\ e.source = "Tavily"
         /\ ~ \E e \in Elems(aggOut) : e.url = u /\ e.source = "SerpAPI"
    /\ aggIn = ScenarioIn => aggOut = ScenarioOut

\* C8 (amended): in that case the output never contains SerpAPI's copy, and it
\* contains Tavily's copy whenever at most 5 candidates survive deduplication
\* and the recency filter; in the scenario the output is exactly [u1 from A, u2].
C8_FirstProviderCopyUnlessCut ==
  aggDone =>
    /\ \A u \in SharedUrls :
         /\ Len(FilterLoop(TavilyIn \o SerpIn, {}, <<>>)) <= 5
              => \E e \in Elems(aggOut) : e.url = u /\ e.source = "Tavily"
         /\ ~ \E e \in Elems(aggOut) : e.url = u /\ e.source = "SerpAPI"
    /\ aggIn = ScenarioIn => aggOut = ScenarioOut

\* the scenario was aggregated
C8_Witness == aggDone /\ aggIn = ScenarioIn /\ aggOut = ScenarioOut

\* ===================================================== properties: main()
\* the loop iteration of query number q has ended
Ended(q) == q < qi \/ (q = qi /\ pc \in {"for", "returned"})

StageOrder == <<"plan", "search", "report">>

StageIndex(st) == CHOOSE k \in 1..3 : StageOrder[k] = st

\* C1: for every query and every combination of model-invocation outcomes and
\* provider outcomes, one run of the pipeline ends with a non-empty plan, a
\* results sequence of at least one element and a non-empty report.
C1_CompleteTriple ==
  \A q \in 1..Len(queries) :
    Ended(q) =>
      /\ out[q].plan # <<>>
      /\ Len(out[q].results) >= 1
      /\ out[q].report # <<>>

\* C2: an exception raised by the model invocation or token stream of a stage
\* is handled at that stage's boundary like an empty result: the stage's
\* fallback value is substituted and every later stage of the same run is
\* still executed.
C2_StageFailureContained ==
  \A q \in 1..Len(queries) :
    (Ended(q) /\ raised[q] \in Stages) =>
      /\ \A st \in Stages : StageIndex(st) >= StageIndex(raised[q]) => st \in ran[q]
      /\ raised[q] = "plan" => out[q].plan = FinalPlan(<<>>, queries[q])
      /\ raised[q] = "report" => out[q].report = FinalReport(<<>>, queries[q])

\* C3: in every run each stage's streamed model call is invoked exactly once,
\* whatever the outcomes of the invocations are.
C3_OneCallPerStage ==
  \A q \in 1..Len(queries) :
    Ended(q) => \A st \in Stages : calls[q][st] = 1

\* C4: each query has its own completed-stage set: the stages completed for one
\* query never cause a stage of another query to be skipped, so all three
\* stages execute for every query.  Stated for the runs in which no exception
\* is raised, so that only the completed-stage set decides it.
C4_OwnCompletedSet ==
  (\A q \in 1..Len(queries) : raised[q] = "none") =>
    /\ pc = "plan_if" => executed_steps = {}
    /\ pc = "search_if" => "search" \notin executed_steps
    /\ pc = "report_if" => "report" \notin executed_steps
    /\ \A q \in 1..Len(queries) : Ended(q) => ran[q] = Stages

\* some strategy of the extraction, taken alone, yields records from the buffer
SomeStrategyYields(buffer) ==
  \/ StartsAndEndsWithBrackets(buffer) /\ LoadedList(Strip(buffer)) # <<>>
  \/ SearchArray(buffer) # <<>> /\ LoadedList(SearchArray(buffer)) # <<>>
  \/ SearchTrailingObject(buffer) # <<>> /\ json_loads(SearchTrailingObject(buffer)).ok

\* C9: extraction never fails and tries its strategies in order; a parse error
\* in one strategy never ends extraction with an empty result while a later
\* strategy would match and parse.
C9_NextStrategyAfterParseError ==
  (pc = "search_extracted" /\ search_output = <<>>) => ~SomeStrategyYields(search_buffer)

RecordKeys == {"title", "description", "url", "published_at", "source"}

\* C10: every record parsed from the search buffer is normalized with the field
\* defaults before use: a record that lacks a field is still included in the
\* Search stage results with the field defaulted, and the stage completes
\* normally with it.
C10_ParsedRecordsNormalized ==
  /\ ~ /\ pc = "except"
       /\ raised[qi] = "sources"
       /\ \A i \in 1..Len(search_output) : search_output[i].kind = "dict"
  /\ \A q \in 1..Len(queries) : \A i \in 1..Len(out[q].results) :
       out[q].results[i].kind = "dict" => RecordKeys \subseteq DOMAIN out[q].results[i].d

\* ------------------------------------------------------------ extraction
\* the three structural shapes, read off the buffer itself
Blank(b, lo, hi) == \A x \in lo..hi : b[x] = WS

WholeArrayShape(b) ==
  \E i \in 1..Len(b) :
    /\ b[i] = "[" /\ Blank(b, 1, i - 1)
    /\ \E k \in 1..Len(b) : b[k] = "]" /\ Blank(b, k + 1, Len(b))

EmbeddedArrayShape(b) ==
  \E i \in 1..Len(b) :
    /\ b[i] = "["
    /\ \E m \in (i + 1)..Len(b) :
         /\ b[m] = "{" /\ Blank(b, i + 1, m - 1)
         /\ \E j \in (m + 1)..Len(b) :
              /\ b[j] = "}"
              /\ \E k \in (j + 1)..Len(b) : b[k] = "]" /\ Blank(b, j + 1, k - 1)

TrailingObjectShape(b) ==
  \E i \in 1..Len(b) :
    /\ b[i] = "{"
    /\ \E j \in (i + 1)..Len(b) : b[j] = "}" /\ Blank(b, j + 1, Len(b))

AnyShape(b) == WholeArrayShape(b) \/ EmbeddedArrayShape(b) \/ TrailingObjectShape(b)

ProviderSources == {"Tavily", "SerpAPI", "Fallback"}

\* C11: when the buffer has none of the three shapes (no array, no embedded
\* array of objects, no trailing object), extraction yields the empty list
\* without raising, and the Search stage goes on to its next data path: the
\* sources it then prints come from the direct search or the fallback.
C11_NoShapeFallsThrough ==
  ~AnyShape(search_buffer) =>
    /\ pc = "search_extracted" => search_output = <<>>
    /\ pc = "sources" =>
         \A i \in 1..Len(search_output) :
           /\ search_output[i].kind = "dict"
           /\ search_output[i].d.source \in ProviderSources
    /\ ~(pc = "except" /\ raised[qi] = "sources")

\* a non-empty buffer of no shape was extracted and Tavily was called next
C11_Witness ==
  /\ pc = "hybrid_serp"
  /\ search_buffer # <<>>
  /\ ~AnyShape(search_buffer)

\* ---------------------------------------------------- the search cascade
\* the recency test of the aggregator, read off the date itself
PassesRecency(r) ==
  \/ r.published_at = NoDate
  \/ \E k \in 1..Len(r.published_at) :
       /\ k + 3 <= Len(r.published_at)
       /\ SubSeq(r.published_at, k, k + 3) = CurrentYear

\* the candidates the aggregator can return
Survivors(cands) == {c \in Elems(cands) : ValidUrl(c.url) /\ PassesRecency(c)}

\* C12: the Search stage result is the first non-empty value of the cascade
\* extractor, hybrid aggregator, fallback: the aggregator is called only when
\* extraction is empty; a non-empty extraction is the result; a non-empty
\* aggregation is the result; and when the aggregator is empty too the result
\* is exactly one record, whose source is "Fallback".
C12_Cascade ==
  [][/\ pc' \in {"hybrid_tavily", "hybrid_serp", "hybrid_serp_sent", "hybrid_filter"} =>
          ExtractSearchOutput(search_buffer') = <<>> /\ search_output' = <<>>
     /\ (pc = "search_extracted" /\ pc' = "sources") =>
          search_output' # <<>> /\ search_output' = ExtractSearchOutput(search_buffer)
     /\ (pc = "hybrid_filter" /\ pc' = "sources") =>
          IF Survivors(results) = {}
          THEN /\ Len(search_output') = 1
               /\ search_output'[1].kind = "dict"
               /\ search_output'[1].d.source = "Fallback"
          ELSE /\ search_output' # <<>>
               /\ \A i \in 1..Len(search_output') :
                    /\ search_output'[i].kind = "dict"
                    /\ search_output'[i].d \in Survivors(results)]_vars

\* extraction and both providers gave nothing and the fallback record is the
\* result of the stage
C12_Witness ==
  /\ pc = "report_if"
  /\ ExtractSearchOutput(search_buffer) = <<>>
  /\ Len(out[qi].results) = 1
  /\ out[qi].results[1].d.source = "Fallback"

\* ------------------------------------------- the aggregator step by step
Candidates == TavilyIn \o SerpIn

RECURSIVE KeepAt(_, _, _)
\* the subsequence of s at the positions in I, from position i on
KeepAt(s, I, i) ==
  IF i > Len(s) THEN <<>>
  ELSE (IF i \in I THEN <<s[i]>> ELSE <<>>) \o KeepAt(s, I, i + 1)

\* the first occurrence of each valid url
DedupFirst(s) ==
  KeepAt(s, {i \in 1..Len(s) :
               ValidUrl(s[i].url) /\ \A j \in 1..(i - 1) : s[j].url # s[i].url}, 1)

RecencyFilter(s) == SelectSeq(s, PassesRecency)

Dated(r) == r.published_at # NoDate

Undated(r) == r.published_at = NoDate

DatedFirst(s) == SelectSeq(s, Dated) \o SelectSeq(s, Undated)

FirstFive(s) == SubSeq(s, 1, IF Len(s) < 5 THEN Len(s) ELSE 5)

\* valid urls whose first occurrence in cands is stale and that a later
\* candidate carries with a date that passes the recency filter
StaleFirstUrls(cands) ==
  {cands[i].url : i \in {k \in 1..Len(cands) :
     /\ ValidUrl(cands[k].url)
     /\ ~PassesRecency(cands[k])
     /\ \A j \in 1..(k - 1) : cands[j].url # cands[k].url
     /\ \E j \in (k + 1)..Len(cands) :
          cands[j].url = cands[k].url /\ PassesRecency(cands[j])}}

\* C13 (as stated): the aggregator output equals deduplication (first
\* occurrence of each valid url), then the recency filter on the deduplicated
\* sequence, then dated before "No date", then the first 5; a url whose first
\* occurrence fails the recency filter is not in the output even when a later
\* duplicate passes it.
C13_DedupThenRecency ==
  aggDone =>
    LET cands == Candidates IN
    /\ aggOut = FirstFive(DatedFirst(RecencyFilter(DedupFirst(cands))))
    /\ \A u \in StaleFirstUrls(cands) : \A e \in Elems(aggOut) : e.url # u

\* C13 (amended): the aggregator output equals the recency filter, then
\* deduplication of what passed it (first occurrence of each valid url), then
\* dated before "No date", then the first 5; a url whose first occurrence fails
\* the recency filter is represented by its first duplicate that passes it,
\* unless more than 5 candidates survive.
C13_RecencyThenDedup ==
  aggDone =>
    LET cands == Candidates
        kept == DedupFirst(RecencyFilter(cands))
    IN  /\ aggOut = FirstFive(DatedFirst(kept))
        /\ Len(kept) <= 5 =>
             \A u \in StaleFirstUrls(cands) : \E e \in Elems(aggOut) : e.url = u

\* Tavily's copy of a url is stale, SerpAPI's copy is recent, and the call
\* returned
C13_Witness ==
  /\ aggDone
  /\ \E a \in Elems(TavilyIn), b \in Elems(SerpIn) :
       a.url = b.url /\ a.url \in StaleFirstUrls(Candidates)

\* C14: a recent duplicate is never discarded in favor of a stale copy that
\* came first: for every valid url u, if some candidate with url u passes the
\* recency filter, the candidates surviving the loop (before the truncation to
\* 5) contain a record with url u that passes the filter, and the output
\* contains it whenever at most 5 candidates survive.
C14_RecentDuplicateSurvives ==
  aggDone =>
    LET cands == Candidates
        final_results == FilterLoop(cands, {}, <<>>)
    IN  \A c \in Survivors(cands) :
          /\ \E e \in Elems(final_results) : e.url = c.url /\ PassesRecency(e)
          /\ Len(final_results) <= 5 =>
               \E e \in Elems(aggOut) : e.url = c.url /\ PassesRecency(e)

\* the first copy of a url was stale, a later one recent, and the output has
\* the recent one
C14_Witness ==
  /\ aggDone
  /\ \E u \in StaleFirstUrls(Candidates) :
       \E e \in Elems(aggOut) : e.url = u /\ e.source = "SerpAPI"

\* the first position of record e in cands
FirstPos(cands, e) == Min({k \in 1..Len(cands) : cands[k] = e})

\* C15: in the aggregator output every dated element precedes every "No date"
\* element; within each of the two groups the elements are in the order of the
\* concatenation of provider results (Tavily's before SerpAPI's); and the
\* truncation to 5 comes after the ordering: a surviving record is missing only
\* from a full output, only behind the records of its group that the output
\* has, and a missing dated record leaves no room for an undated one.
C15_DatedFirstStable ==
  aggDone =>
    LET cands == Candidates
        kept == Elems(DedupFirst(RecencyFilter(cands)))
        pos == [e \in kept |-> FirstPos(cands, e)]
    IN  /\ Len(aggOut) <= 5
        /\ Elems(aggOut) \subseteq kept
        /\ \A i, j \in 1..Len(aggOut) :
             i < j =>
               /\ ~(Undated(aggOut[i]) /\ Dated(aggOut[j]))
               /\ Dated(aggOut[i]) = Dated(aggOut[j]) => pos[aggOut[i]] < pos[aggOut[j]]
        /\ \A c \in kept \ Elems(aggOut) :
             /\ Len(aggOut) = 5
             /\ Dated(c) => \A e \in Elems(aggOut) : Dated(e)
             /\ \A e \in Elems(aggOut) : Dated(e) = Dated(c) => pos[e] < pos[c]

\* a dated record of SerpAPI was returned before an undated record of Tavily,
\* and a surviving record was cut
C15_Witness ==
  /\ aggDone
  /\ Len(FilterLoop(Candidates, {}, <<>>)) > Len(aggOut)
  /\ \E i, j \in 1..Len(aggOut) :
       /\ i < j
       /\ aggOut[i].source = "SerpAPI" /\ Dated(aggOut[i])
       /\ aggOut[j].source = "Tavily" /\ Undated(aggOut[j])

\* ------------------------------------------------- the completed-stage set
\* C16: in every step of main() a stage's model call is made only while the
\* stage's identifier is not in executed_steps; an identifier enters the set
\* only in a step that leaves the stage's output recorded, the fallback taking
\* the place of an empty output; and the set never loses an element.
C16_CompletedSetDiscipline ==
  [][/\ \A q \in 1..Len(queries) : \A st \in Stages :
          calls'[q][st] > calls[q][st] => st \notin executed_steps
     /\ executed_steps \subseteq executed_steps'
     /\ "plan" \in executed_steps' \ executed_steps =>
          out'[qi].plan = plan' /\ (plan = <<>> => plan' # <<>>)
     /\ "search" \in executed_steps' \ executed_steps =>
          out'[qi].results = search_output /\ search_output # <<>>
     /\ "report" \in executed_steps' \ executed_steps =>
          out'[qi].report = report' /\ report' # <<>>
    ]_vars

\* the Plan stage of a later query was skipped because "plan" was in the set
C16_Witness ==
  /\ qi > 1
  /\ pc = "search_if"
  /\ "plan" \in executed_steps
  /\ calls[qi]["plan"] = 0

\* ------------------------------------------------------- order of stages
\* C17: within the run of one query the stages start in the order Plan,
\* Search, Report, each only after its predecessor ended in that run with its
\* output (fallback included) recorded; the Search prompt carries the plan the
\* Plan stage of the run recorded and the Report prompt carries the results
\* the Search stage of the run recorded.
C17_StagesInOrder ==
  [][(qi >= 1 /\ qi' = qi) =>
       /\ calls'[qi]["plan"] > calls[qi]["plan"] => ran[qi] = {}
       /\ calls'[qi]["search"] > calls[qi]["search"] =>
            /\ ran[qi] = {"plan"}
            /\ prompt'.arg = out[qi].plan
       /\ calls'[qi]["report"] > calls[qi]["report"] =>
            /\ ran[qi] = {"plan", "search"}
            /\ prompt'.arg = out[qi].results
    ]_vars

\* ------------------------------------------------------ stream accumulation
\* the buffer of the stage whose stream is read
StreamBuffer ==
  IF pc = "plan_stream" THEN plan
  ELSE IF pc = "search_stream" THEN search_buffer
  ELSE report

\* a token that is not empty after trimming
NonBlank(d) == \E i \in 1..Len(d) : d[i] # WS

RECURSIVE ConcatArgs(_, _, _)
\* concatenation, in the order of the log, of the tokens of the entries with
\* operation op from position i on, blank ones left out
ConcatArgs(log, op, i) ==
  IF i > Len(log) THEN <<>>
  ELSE (IF log[i].op = op /\ NonBlank(log[i].arg) THEN log[i].arg ELSE <<>>)
         \o ConcatArgs(log, op, i + 1)

\* C18: while a stream is read, the stage's buffer is the concatenation, in
\* arrival order, of exactly the tokens that are non-empty after trimming; an
\* empty or whitespace-only token leaves no trace in it; and the progress line
\* of a surviving token is printed right before the token is appended.
C18_BufferIsSurvivors ==
  pc \in {"plan_stream", "search_stream", "report_stream"} =>
    /\ StreamBuffer = ConcatArgs(stream_log, "delta", 1)
    /\ StreamBuffer = ConcatArgs(stream_log, "append", 1)
    /\ \A i \in 1..Len(stream_log) :
         /\ (stream_log[i].op = "delta" /\ NonBlank(stream_log[i].arg)) =>
              /\ i + 2 <= Len(stream_log)
              /\ stream_log[i + 1] = LogEntry("print", stream_log[i].arg)
              /\ stream_log[i + 2] = LogEntry("append", stream_log[i].arg)
         /\ stream_log[i].op = "print" =>
              /\ i > 1
              /\ stream_log[i - 1] = LogEntry("delta", stream_log[i].arg)
              /\ NonBlank(stream_log[i].arg)
         /\ stream_log[i].op = "append" =>
              /\ i > 1
              /\ stream_log[i - 1] = LogEntry("print", stream_log[i].arg)

\* a whitespace-only token was dropped and a later token was appended
C18_Witness ==
  /\ pc = "search_stream"
  /\ search_buffer # <<>>
  /\ \E i, j \in 1..Len(stream_log) :
       /\ i < j
       /\ stream_log[i] = LogEntry("delta", <<WS>>)
       /\ stream_log[j].op = "append"

\* -------------------------------------------------------- the recorded plan
NotMarker(t) == t # PlanMarker

\* C19: the plan the Plan stage records is the accumulated text with the
\* "[Plan Stream]" markers stripped, and the Plan fallback when that stripped
\* text is empty; so the recorded plan is non-empty also when the accumulated
\* text consists only of markers and whitespace.
C19_StrippedPlanOrFallback ==
  [][("plan" \in executed_steps' \ executed_steps) =>
       LET stripped == Strip(SelectSeq(plan, NotMarker)) IN
       /\ out'[qi].plan # <<>>
       /\ stripped # <<>> => out'[qi].plan = stripped
       /\ stripped = <<>> => out'[qi].plan \in {FallbackPlan(query), Strip(FallbackPlan(query))}
    ]_vars

\* ------------------------------------------------- malformed list elements
\* C20: an element of the matched structure that is not a key-value mapping
\* (a number, a string) is skipped: the sources the Search stage goes on with
\* are all mappings, and no such element makes the stage end in the except
\* block.
C20_NonMappingSkipped ==
  /\ pc = "sources" => \A i \in 1..Len(search_output) : search_output[i].kind = "dict"
  /\ ~ /\ pc = "except"
       /\ raised[qi] = "sources"
       /\ \E i \in 1..Len(search_output) : search_output[i].kind # "dict"

\* ------------------------------------------------------ provider dispatch
\* C21: the aggregator dispatches the query to its providers concurrently:
\* the request to SerpAPI is sent without waiting for Tavily's call to return,
\* so that it can be in flight while Tavily's is, and no state has Tavily's
\* call returned with SerpAPI's request not yet sent; every request carries
\* its own timeout of 15; and the candidates are Tavily's followed by
\* SerpAPI's whichever call ends first.
C21_ConcurrentDispatch ==
  /\ requests["Tavily"].state = "done" => requests["SerpAPI"].state # "idle"
  /\ \A p \in Providers : requests[p].state # "idle" => requests[p].timeout = 15
  /\ pc = "hybrid_filter" =>
       \A i, j \in 1..Len(results) :
         i < j => ~(results[i].source = "SerpAPI" /\ results[j].source = "Tavily")

\* ------------------------------------------------------------ the handler
\* the stage in whose block the exception of query q was raised
FailedStage(q) == IF raised[q] = "sources" THEN "search" ELSE raised[q]

\* C22: no exception raised while a query is processed escapes main():
\* whichever stage raises, the handler prints the fallback plan and the
\* fallback report, leaves executed_steps as it is, without the failing stage
\* and the stages after it, prints no search results, and main() goes on with
\* the next query, or returns when there is none.
C22_HandlerContains ==
  [][pc = "except" =>
       /\ out'[qi].plan = FallbackPlan(query) /\ out'[qi].plan # <<>>
       /\ out'[qi].report = ErrorReport(query) /\ out'[qi].report # <<>>
       /\ executed_steps' = executed_steps
       /\ \A st \in Stages :
            StageIndex(st) >= StageIndex(FailedStage(qi)) => st \notin executed_steps'
       /\ out'[qi].results = out[qi].results
       /\ ran' = ran
       /\ qi' = qi /\ pc' = "for"
       /\ (qi < Len(queries) => ENABLED ForNext)'
       /\ (qi = Len(queries) => ENABLED ForExit)'
    ]_vars

\* every query raised, in different stages, and main() returned
C22_Witness ==
  /\ pc = "returned"
  /\ Len(queries) = 2
  /\ raised[1] = "plan"
  /\ raised[2] \in {"search", "sources", "report"}


\* ---------------------------------------------------------------- C23
\* the number of the term whose response a returned record came from
TermOf(record) == record.title[2]

FromTerms(ts) == {k \in 1..Len(tool_results) : TermOf(tool_results[k]) \in ts}

\* C23: get_tech_updates never returns an empty list; the terms queried are
\* [primary_query] + keywords in order; no request is issued once the
\* accumulated results have reached 5; every record has a truthy title, at
\* most 5 come from one term and at most 9 in all; with no record after all
\* the terms the call raises ValueError.
C23_NeverEmptyBounded ==
  /\ tool_pc = "returned" => tool_results # <<>>
  /\ all_terms = <<PrimaryQuery(tool_query)>>
                   \o [i \in 1..Len(Keywords(tool_query)) |-> <<Keywords(tool_query)[i]>>]
  /\ Len(responses) <= term_i /\ term_i <= Len(all_terms)
  /\ \A i, j \in 1..Len(tool_results) :
       i < j => TermOf(tool_results[i]) <= TermOf(tool_results[j])
  /\ Len(tool_results) >= 5 => tool_pc # "loop" /\ ~ENABLED ToolRequestRaises
  /\ Cardinality(FromTerms(1..(term_i - 1))) < 5
  /\ \A k \in 1..Len(tool_results) :
       tool_results[k].title # <<>> /\ tool_results[k].title # <<"None">>
  /\ \A t \in 1..Len(all_terms) : Cardinality(FromTerms({t})) <= 5
  /\ Len(tool_results) <= 9
  /\ (tool_pc \in {"returned", "raised"} /\ tool_results = <<>> /\ Len(responses) = Len(all_terms)
        /\ \A i \in 1..Len(responses) : Get(responses[i], "status", <<>>) = "ok")
       => tool_pc = "raised" /\ tool_exc.type = "ValueError" /\ tool_exc.at = 0

\* nine records returned: four of the first term and five of the second,
\* whose response held more than five titled articles
C23_Witness ==
  /\ tool_pc = "returned" /\ Len(tool_results) = 9
  /\ Len(responses) = 2 /\ Len(all_terms) = 3
  /\ Len(Get(responses[2], "articles", <<>>)) > 5

\* ---------------------------------------------------------------- C24
NotOk(i) == Get(responses[i], "status", <<>>) # "ok"

\* C24: a response with a status other than "ok" makes the call raise
\* ValueError at that term; no later term is queried, and none of the
\* records accumulated from earlier terms is returned.
C24_NonOkRaises ==
  \A i \in 1..Len(responses) :
    NotOk(i) =>
      /\ i = Len(responses) /\ term_i = i
      /\ tool_pc = "raised"
      /\ tool_exc.type = "ValueError" /\ tool_exc.message = "News API error"
      /\ tool_exc.at = i
      /\ ~ENABLED ToolNext

\* the second term's response is not ok after the first term gave records
C24_Witness ==
  /\ Len(responses) = 2 /\ NotOk(2) /\ ~NotOk(1)
  /\ tool_results # <<>> /\ tool_pc = "raised"

====
